---- MODULE Spec2Model ----
(***************************************************************************)
(* A mixture density network trained by maximum likelihood                 *)
(* (examples/tf_mixture_density_network.py).                               *)
(*                                                                         *)
(* The module models                                                       *)
(*   - the class MixtureDensityNetwork: __init__, neural_network, log_prob;*)
(*   - the script: data set, placeholders, inference, the training loop    *)
(*     and the final read of model.pi / model.mus / model.sigmas.          *)
(*                                                                         *)
(* Numbers.  The tensors are float32.  A finite float is modelled by an    *)
(* integer counting units of 1/Scale (fixed point); the results the script *)
(* can also produce, +inf, -inf and NaN, are kept as classes of their own. *)
(* tf.exp keeps float32's range: it is 0 exactly where the float32 result  *)
(* is 0.0 and +inf exactly where the float32 result overflows.  Magnitudes *)
(* are approximate, sums of fixed-point numbers are exact.                 *)
(*                                                                         *)
(* Parameters.  The values of the five Dense layers of a network are drawn *)
(* from a small family (Settings); a layer's kernel and bias are generated *)
(* from a pattern [w, dw, b, db]: kernel[h][j] = w + (j-1)*dw,             *)
(* bias[j] = b + (j-1)*db.                                                 *)
(***************************************************************************)
EXTENDS Integers, Sequences, FiniteSets, TLC

\* --------------------------------------------------------------- bounds

\* Units per 1.0 of the fixed-point grid.
Scale == 1000

\* Rows of the training batch (the script draws 6000 rows and splits them).
NRows == 2

\* Largest number of mixture components a model is constructed with in SpecAPI.
MaxK == 3

\* Largest number of networks built (calls of neural_network) in SpecAPI.
MaxNets == 2

\* Largest number of optimizer updates in SpecAPI.
MaxUpdates == 2

\* ------------------------------------------------------ program constants

\* Dense(25, ...): units of each hidden layer.
HiddenUnits == 25

\* model = MixtureDensityNetwork(10)
ScriptK == 10

\* NEPOCH = 20
NEPOCH == 20

\* ed.placeholder(tf.float32, shape=(None, 1)): one feature per row.
InputDim == 1

\* float32: exp(x) rounds to 0.0 for x <= ln(2^-150) = -103.972...
\* (in thousandths).
ExpUnderflowMilli == -103972

\* float32: exp(x) overflows to +inf for x > ln(FLT_MAX) = 88.7228...
\* (in thousandths).
ExpOverflowMilli == 88723

\* --------------------------------------------------------------- numbers

Fin(v) == [c |-> "fin", v |-> v]

PInf == [c |-> "pinf", v |-> 0]

NInf == [c |-> "ninf", v |-> 0]

NaN == [c |-> "nan", v |-> 0]

IsFin(a) == a.c = "fin"

IsInf(a) == a.c \in {"pinf", "ninf"}

\* -1, 0 or 1
Sign(a) ==
  CASE a.c = "pinf" -> 1
    [] a.c = "ninf" -> -1
    [] a.c = "fin" -> (IF a.v > 0 THEN 1 ELSE IF a.v < 0 THEN -1 ELSE 0)
    [] OTHER -> 0

Signed(s) == IF s > 0 THEN PInf ELSE IF s < 0 THEN NInf ELSE NaN

\* Fixed-point product of two grid values.
FxMul(a, b) == (a * b) \div Scale

\* e^x on the grid for a grid value x (Horner form of the series on
\* [-1/2, 1/2], squaring outside).
RECURSIVE FxExp(_)
FxExp(x) ==
  IF x > Scale \div 2 \/ x < -(Scale \div 2)
  THEN LET h == FxExp(x \div 2) IN (h * h) \div Scale
  ELSE LET a4 == Scale + x \div 4
           a3 == Scale + (x * a4) \div (3 * Scale)
           a2 == Scale + (x * a3) \div (2 * Scale)
       IN  Scale + (x * a2) \div Scale

Ln2 == (693147 * Scale) \div 1000000

\* ln v on the grid for a grid value v > 0.
RECURSIVE FxLog(_)
FxLog(v) ==
  IF v >= 2 * Scale THEN Ln2 + FxLog(v \div 2)
  ELSE IF v < Scale THEN FxLog(2 * v) - Ln2
  ELSE LET t  == ((v - Scale) * Scale) \div (v + Scale)
           t2 == (t * t) \div Scale
           t3 == (t * t2) \div Scale
           t5 == (t3 * t2) \div Scale
       IN  2 * (t + t3 \div 3 + t5 \div 5)

EAdd(a, b) ==
  CASE a.c = "nan" \/ b.c = "nan" -> NaN
    [] IsInf(a) /\ IsInf(b) -> (IF a.c = b.c THEN a ELSE NaN)
    [] IsInf(a) -> a
    [] IsInf(b) -> b
    [] OTHER -> Fin(a.v + b.v)

ENeg(a) ==
  CASE a.c = "pinf" -> NInf
    [] a.c = "ninf" -> PInf
    [] a.c = "fin" -> Fin(-a.v)
    [] OTHER -> NaN

ESub(a, b) == EAdd(a, ENeg(b))

EMul(a, b) ==
  CASE a.c = "nan" \/ b.c = "nan" -> NaN
    [] IsInf(a) \/ IsInf(b) -> Signed(Sign(a) * Sign(b))
    [] OTHER -> Fin(FxMul(a.v, b.v))

EDiv(a, b) ==
  CASE a.c = "nan" \/ b.c = "nan" -> NaN
    [] IsInf(a) /\ IsInf(b) -> NaN
    [] IsInf(a) -> Signed(Sign(a) * (IF Sign(b) < 0 THEN -1 ELSE 1))
    [] IsInf(b) -> Fin(0)
    [] b.v = 0 -> Signed(Sign(a))
    [] OTHER -> Fin((a.v * Scale) \div b.v)

\* tf.exp / K.exp on one float32 value.
tf_exp(a) ==
  CASE a.c = "nan" -> NaN
    [] a.c = "pinf" -> PInf
    [] a.c = "ninf" -> Fin(0)
    [] a.v * 1000 <= ExpUnderflowMilli * Scale -> Fin(0)
    [] a.v * 1000 >= ExpOverflowMilli * Scale -> PInf
    [] OTHER -> LET e == FxExp(a.v) IN Fin(IF e < 1 THEN 1 ELSE e)

\* tf.log on one float32 value.
tf_log(a) ==
  CASE a.c = "nan" -> NaN
    [] a.c = "pinf" -> PInf
    [] a.c = "ninf" -> NaN
    [] a.v < 0 -> NaN
    [] a.v = 0 -> NInf
    [] OTHER -> Fin(FxLog(a.v))

\* --------------------------------------------------------------- tensors
\* A rank-2 tensor is a sequence of rows, a row a sequence of numbers.

\* The sequence f, enumerated (it is the same sequence: a function given by a
\* rule is evaluated again at every application, an enumerated one is not).
Tup(f) == f \o <<>>

RECURSIVE SumInts(_)
SumInts(s) == IF s = <<>> THEN 0 ELSE Head(s) + SumInts(Tail(s))

RECURSIVE MaxInts(_)
MaxInts(s) ==
  IF Len(s) = 1 THEN s[1]
  ELSE LET m == MaxInts(Tail(s)) IN IF s[1] > m THEN s[1] ELSE m

\* tf.reduce_sum of a vector of float32 values.
RECURSIVE reduce_sum(_)
reduce_sum(s) == IF s = <<>> THEN Fin(0) ELSE EAdd(Head(s), reduce_sum(Tail(s)))

\* tf.reduce_sum(t, 1): the sum of every row, a vector with one entry per row.
reduce_sum_1(t) == Tup([i \in 1..Len(t) |-> reduce_sum(t[i])])

\* Broadcasting: an axis of size 1 is stretched along the other operand's.
At(t, i, k) == t[IF Len(t) = 1 THEN 1 ELSE i][IF Len(t[1]) = 1 THEN 1 ELSE k]

BRows(a, b) == IF Len(a) > Len(b) THEN Len(a) ELSE Len(b)

BCols(a, b) == IF Len(a[1]) > Len(b[1]) THEN Len(a[1]) ELSE Len(b[1])

\* a * b, elementwise with broadcasting.
tf_mul(a, b) ==
  Tup([i \in 1..BRows(a, b) |->
         Tup([k \in 1..BCols(a, b) |-> EMul(At(a, i, k), At(b, i, k))])])

\* tf.exp of a tensor.
tf_exp_t(t) == Tup([i \in 1..Len(t) |-> Tup([k \in 1..Len(t[i]) |-> tf_exp(t[i][k])])])

\* tf.log of a vector.
tf_log_v(s) == Tup([i \in 1..Len(s) |-> tf_log(s[i])])

HalfLog2Pi == (918939 * Scale) \div 1000000

\* The Gaussian log-density of x under mean loc and standard deviation scale:
\* -log(2 pi)/2 - log(scale) - ((x - loc)/scale)^2 / 2.
logpdf1(x, loc, scale) ==
  LET z == EDiv(ESub(x, loc), scale)
  IN  ESub(ESub(Fin(-HalfLog2Pi), tf_log(scale)),
           EMul(Fin(Scale \div 2), EMul(z, z)))

\* norm.logpdf(x, loc, scale), elementwise with broadcasting.
norm_logpdf(x, loc, scale) ==
  Tup([i \in 1..BRows(x, loc) |->
         Tup([k \in 1..BCols(x, loc) |->
                logpdf1(At(x, i, k), At(loc, i, k), At(scale, i, k))])])

\* ---------------------------------------------------------------- layers

\* A pattern generates the values of one Dense layer.
Kernel(p, h, j) == p.w + (j - 1) * p.dw

Bias(p, j) == p.b + (j - 1) * p.db

Pat(w, dw, b, db) == [w |-> w, dw |-> dw, b |-> b, db |-> db]

\* K.relu
relu(row) == Tup([j \in 1..Len(row) |-> IF row[j] > 0 THEN row[j] ELSE 0])

\* No activation: Dense(self.K)
linear(row) == Tup([j \in 1..Len(row) |-> Fin(row[j])])

\* K.exp
exp_act(row) == Tup([j \in 1..Len(row) |-> tf_exp(Fin(row[j]))])

\* K.softmax: the normalized exponential over the last axis (tf.nn.softmax
\* subtracts the row's maximum first).
softmax(row) ==
  LET m == MaxInts(row)
      e == Tup([j \in 1..Len(row) |-> tf_exp(Fin(row[j] - m)).v])
      s == SumInts(e)
  IN  Tup([j \in 1..Len(row) |-> Fin((e[j] * Scale) \div s)])

Activation(act, row) ==
  CASE act = "relu" -> relu(row)
    [] act = "exp" -> exp_act(row)
    [] act = "softmax" -> softmax(row)
    [] OTHER -> linear(row)

\* Dense(units, activation=act) applied to a tensor whose rows have `in`
\* entries: the layer, with kernel of shape (in, units) and bias of shape
\* (units,).  src is the tensor it is applied to: 0 for the placeholder X,
\* else the index of the layer whose output it is.
Dense(units, act, in, src) ==
  [units |-> units, act |-> act, in |-> in, src |-> src]

\* The output of layer l with values p on input t.
dense_call(l, p, t) ==
  Tup([i \in 1..Len(t) |->
         Activation(l.act,
           Tup([j \in 1..l.units |->
                  SumInts(Tup([h \in 1..l.in |-> FxMul(t[i][h], Kernel(p, h, j))]))
                    + Bias(p, j)]))])

\* The parameter tensors of a layer: kernel and bias, with their shapes.
ParamShapes(l) == << <<l.in, l.units>>, <<l.units>> >>

\* The parameter settings a network can be in: one pattern for each of its
\* five layers (hidden1, hidden2, mus, sigmas, pi).
\*   1, 2  initial values (kernels drawn at random, biases zero);
\*   3     values after training;
\*   4     values after training with the sigma head's bias at -104.
Settings ==
  << << Pat(200, 0, 0, 0), Pat(40, 0, 0, 0),
        Pat(20, 10, 0, 0), Pat(4, 2, 0, 0), Pat(0, 8, 0, 0) >>,
     << Pat(-300, 0, 0, 0), Pat(20, 0, 0, 0),
        Pat(-40, 30, 0, 0), Pat(-8, 4, 0, 0), Pat(12, -4, 0, 0) >>,
     << Pat(250, 0, 100, 0), Pat(40, 0, -200, 0),
        Pat(30, 10, -1000, 700), Pat(-4, 2, -500, 300), Pat(6, 3, 200, -500) >>,
     << Pat(250, 0, 100, 0), Pat(40, 0, -200, 0),
        Pat(30, 10, -1000, 700), Pat(0, 0, -104 * Scale, 0), Pat(6, 3, 200, -500) >> >>

SettingIds == 1..Len(Settings)

InitSettings == {1, 2}

TrainedSettings == {3, 4}

\* The step of the optimizer: a function of the parameters it starts from (the
\* batch fed is the same at every step).  Which function it is depends on the
\* optimizer and its learning rate; every step leaves trained values, and no
\* step leaves setting 4 (the loss there is NaN, and so is its gradient).
StepFunctions ==
  { f \in [SettingIds -> TrainedSettings] : f[4] = 4 /\ f[1] = f[2] /\ (f[1] = 4 => f[3] = 4) }

NoStep == [s \in SettingIds |-> 0]

\* ------------------------------------------------------------------ data

\* Rows <<x, y>> the toy data set can hold (y uniform on [-10.5, 10.5], x
\* a function of y plus normal noise).
Rows == { <<-1000, 0>>, <<2000, 1500>> }

\* A batch of n rows as the pair of arrays of shape (n, 1).
Batch(rows) ==
  [X |-> [r \in 1..Len(rows) |-> <<rows[r][1]>>],
   y |-> [r \in 1..Len(rows) |-> <<rows[r][2]>>]]

Batches(n) == { Batch(rows) : rows \in [1..n -> Rows] }

NoBatch == [X |-> <<>>, y |-> <<>>]

\* The batches fed in SpecAPI.
Feeds == { Batch(<< <<2000, 0>> >>), Batch(<< <<-1000, 0>>, <<2000, 1500>> >>) }

\* ----------------------------------------------------------------- state

VARIABLES
  pc,          \* the script's position
  K,           \* model.K
  attrs,       \* model.mus, model.sigmas, model.pi: the layers whose outputs
               \* they are (0: the attribute does not exist)
  layers,      \* the Dense layers created so far, in order of creation
  theta,       \* theta[n]: the setting of the values of the n-th network
  loss,        \* inference.loss: the tensor log_prob returned to initialize
  opt,         \* the optimizer's step (NoStep before inference.initialize)
  data,        \* X_train, y_train, X_test, y_test
  i,           \* the loop variable
  train_loss,  \* train_loss
  test_loss,   \* test_loss
  pred,        \* pred_weights, pred_means, pred_std
  nupdates,    \* optimizer updates made so far
  ninit,       \* runs of the variable initializer so far
  wlog,        \* the writes to train_loss and test_loss, in order
  calls,       \* SpecAPI: the tensors the calls of model.log_prob returned
  run          \* SpecAPI: what the last operation returned, when it was an
               \* evaluation of inference.loss: the batch fed and the value

vars ==
  << pc, K, attrs, layers, theta, loss, opt, data, i, train_loss, test_loss,
     pred, nupdates, ninit, wlog, calls, run >>

NoTensor == [mus |-> 0, sigmas |-> 0, pi |-> 0]

NoRun == [feed |-> NoBatch, val |-> Fin(0)]

\* ------------------------------------------------- MixtureDensityNetwork

\* Mutant: the pi head is created with one unit too many.
NewNetworkWidePi(k, base) ==
  << Dense(HiddenUnits, "relu", InputDim, 0),
     Dense(HiddenUnits, "relu", HiddenUnits, base + 1),
     Dense(k, "linear", HiddenUnits, base + 2),
     Dense(k, "exp", HiddenUnits, base + 2),
     Dense(k + 1, "softmax", HiddenUnits, base + 2) >>

\* The five layers neural_network creates when `base` layers exist.
NewNetwork(k, base) ==
  << Dense(HiddenUnits, "relu", InputDim, 0),
     Dense(HiddenUnits, "relu", HiddenUnits, base + 1),
     Dense(k, "linear", HiddenUnits, base + 2),
     Dense(k, "exp", HiddenUnits, base + 2),
     Dense(k, "softmax", HiddenUnits, base + 2) >>

\* self.mus, self.sigmas, self.pi after neural_network ran with `base` layers.
NewAttrs(base) == [mus |-> base + 3, sigmas |-> base + 4, pi |-> base + 5]

\* neural_network(self, X) on the placeholder X: five new layers, whose
\* values start at the setting s, and the three attributes.
neural_network(s) ==
  /\ layers' = layers \o NewNetwork(K, Len(layers))
  /\ theta' = Append(theta, s)
  /\ attrs' = NewAttrs(Len(layers))

\* The network a layer belongs to, and its place in it.
NetOf(l) == (l - 1) \div 5 + 1

ParamOf(th, l) == Settings[th[NetOf(l)]][((l - 1) % 5) + 1]

\* The value of layer l's output when X is fed, in the graph ls under the
\* values th.
\* The forward pass over the layers l..last of one network, whose first layer
\* is first: vals holds the outputs of the layers first..l-1.
RECURSIVE Forward(_, _, _, _, _, _, _)
Forward(ls, th, X, first, l, last, vals) ==
  IF l > last THEN vals
  ELSE Forward(ls, th, X, first, l + 1, last,
               Append(vals,
                      dense_call(ls[l], ParamOf(th, l),
                                 IF ls[l].src = 0 THEN X
                                 ELSE vals[ls[l].src - first + 1])))

\* The outputs of the five layers of network n.
NetValues(ls, th, n, X) ==
  Forward(ls, th, X, 5 * (n - 1) + 1, 5 * (n - 1) + 1, 5 * n, <<>>)

Value(ls, th, l, X) == NetValues(ls, th, NetOf(l), X)[((l - 1) % 5) + 1]

\* A fed array as a float32 tensor.
Feed(a) == Tup([r \in 1..Len(a) |-> Tup([c \in 1..Len(a[r]) |-> Fin(a[r][c])])])

\* Mutant: the logarithm is taken of every weighted component density, and the
\* logarithms are summed over components and rows.
log_prob_sum_of_logs(y, pi, mus, sigmas) ==
  LET result == tf_mul(pi, tf_exp_t(norm_logpdf(y, mus, sigmas)))
  IN  reduce_sum(reduce_sum_1(Tup([r \in 1..Len(result) |-> tf_log_v(result[r])])))

\* Mutant: the row's density is that of its first component alone.
log_prob_first_component(y, pi, mus, sigmas) ==
  LET result == tf_mul(pi, tf_exp_t(norm_logpdf(y, mus, sigmas)))
  IN  reduce_sum(tf_log_v(Tup([r \in 1..Len(result) |-> result[r][1]])))

\* The computation log_prob builds from y and from self.pi, self.mus and
\* self.sigmas (lines 53-55).
log_prob(y, pi, mus, sigmas) ==
  LET result == tf_mul(pi, tf_exp_t(norm_logpdf(y, mus, sigmas)))
  IN  reduce_sum(tf_log_v(reduce_sum_1(result)))

\* sess.run of [model.pi, model.mus, model.sigmas].
RunHeads(ls, th, t, X) ==
  LET v == NetValues(ls, th, NetOf(t.pi), X)
      Out(l) == IF NetOf(l) = NetOf(t.pi) THEN v[((l - 1) % 5) + 1]
                ELSE Value(ls, th, l, X)
  IN  [pi |-> Out(t.pi), mus |-> Out(t.mus), sigmas |-> Out(t.sigmas)]

\* sess.run of the tensor t that log_prob returned, feeding the batch.
RunLogProb(ls, th, t, feed) ==
  LET h == RunHeads(ls, th, t, feed.X)
  IN  log_prob(Feed(feed.y), h.pi, h.mus, h.sigmas)

NoPred == [pi |-> <<>>, mus |-> <<>>, sigmas |-> <<>>]

\* ---------------------------------------------------------------- script

Zeros(n) == Tup([e \in 1..n |-> Fin(0)])

\* The optimizer's step on the network the loss is built on.
Stepped(th) == [th EXCEPT ![NetOf(loss.pi)] = opt[th[NetOf(loss.pi)]]]

\* State after model = MixtureDensityNetwork(10).
Init ==
  /\ pc = "dataset"
  /\ K = ScriptK
  /\ attrs = NoTensor
  /\ layers = <<>>
  /\ theta = <<>>
  /\ loss = NoTensor
  /\ opt = NoStep
  /\ data = [train |-> NoBatch, test |-> NoBatch]
  /\ i = 0
  /\ train_loss = <<>>
  /\ test_loss = <<>>
  /\ pred = NoPred
  /\ nupdates = 0
  /\ ninit = 0
  /\ wlog = <<>>
  /\ calls = <<>>
  /\ run = NoRun

\* build_toy_dataset(N=6000) and train_test_split.
BuildDataset ==
  /\ pc = "dataset"
  /\ \E tr \in Batches(NRows), te \in Batches(1) :
       data' = [train |-> tr, test |-> te]
  /\ pc' = "initialize"
  /\ UNCHANGED << K, attrs, layers, theta, loss, opt, i, train_loss, test_loss,
                  pred, nupdates, ninit, wlog, calls, run >>

\* inference = ed.MAP([], data, model); inference.initialize(): the loss is
\* built by one call of model.log_prob on the placeholders.
Initialize ==
  /\ pc = "initialize"
  /\ \E s \in InitSettings : neural_network(s)
  /\ loss' = attrs'
  /\ \E f \in StepFunctions : opt' = f
  /\ pc' = "initvars"
  /\ UNCHANGED << K, data, i, train_loss, test_loss, pred, nupdates, ninit,
                  wlog, calls, run >>

\* init = tf.initialize_all_variables(); init.run()
InitVars ==
  /\ pc = "initvars"
  /\ theta' \in [1..Len(theta) -> InitSettings]
  /\ ninit' = ninit + 1
  /\ pc' = "alloc"
  /\ UNCHANGED << K, attrs, layers, loss, opt, data, i, train_loss, test_loss,
                  pred, nupdates, wlog, calls, run >>

\* train_loss = np.zeros(NEPOCH); test_loss = np.zeros(NEPOCH); the loop starts.
AllocLoss ==
  /\ pc = "alloc"
  /\ train_loss' = Zeros(NEPOCH)
  /\ test_loss' = Zeros(NEPOCH)
  /\ i' = 0
  /\ pc' = IF NEPOCH > 0 THEN "update" ELSE "read"
  /\ UNCHANGED << K, attrs, layers, theta, loss, opt, data, pred, nupdates,
                  ninit, wlog, calls, run >>

\* Mutant: the loss is stored one entry too far.
UpdateOffByOne ==
  /\ pc = "update"
  /\ theta' = Stepped(theta)
  /\ nupdates' = nupdates + 1
  /\ train_loss' = [train_loss EXCEPT ![i + 2] = RunLogProb(layers, theta, loss, data.train)]
  /\ wlog' = Append(wlog, [arr |-> "train", idx |-> i + 1, upd |-> nupdates'])
  /\ pc' = "evaluate"
  /\ UNCHANGED << K, attrs, layers, loss, opt, data, i, test_loss, pred, ninit,
                  calls, run >>

\* info_dict = inference.update(feed_dict={X: X_train, y: y_train});
\* train_loss[i] = info_dict['loss']
Update ==
  /\ pc = "update"
  /\ theta' = Stepped(theta)
  /\ nupdates' = nupdates + 1
  /\ train_loss' = [train_loss EXCEPT ![i + 1] = RunLogProb(layers, theta, loss, data.train)]
  /\ wlog' = Append(wlog, [arr |-> "train", idx |-> i, upd |-> nupdates'])
  /\ pc' = "evaluate"
  /\ UNCHANGED << K, attrs, layers, loss, opt, data, i, test_loss, pred, ninit,
                  calls, run >>

\* Mutant: the loop runs for i = 0..NEPOCH.
EvaluateOffByOne ==
  /\ pc = "evaluate"
  /\ test_loss' = [test_loss EXCEPT ![i + 1] = RunLogProb(layers, theta, loss, data.test)]
  /\ wlog' = Append(wlog, [arr |-> "test", idx |-> i, upd |-> nupdates])
  /\ i' = i + 1
  /\ pc' = IF i + 1 <= NEPOCH THEN "update" ELSE "read"
  /\ UNCHANGED << K, attrs, layers, theta, loss, opt, data, train_loss, pred,
                  nupdates, ninit, calls, run >>

\* Mutant: the evaluation fetches the training operation with the loss.
EvaluateAndTrain ==
  /\ pc = "evaluate"
  /\ test_loss' = [test_loss EXCEPT ![i + 1] = RunLogProb(layers, theta, loss, data.test)]
  /\ theta' = Stepped(theta)
  /\ wlog' = Append(wlog, [arr |-> "test", idx |-> i, upd |-> nupdates])
  /\ i' = i + 1
  /\ pc' = IF i + 1 < NEPOCH THEN "update" ELSE "read"
  /\ UNCHANGED << K, attrs, layers, loss, opt, data, train_loss, pred,
                  nupdates, ninit, calls, run >>

\* test_loss[i] = sess.run(inference.loss, feed_dict={X: X_test, y: y_test});
\* the print; the loop's next i.
Evaluate ==
  /\ pc = "evaluate"
  /\ test_loss' = [test_loss EXCEPT ![i + 1] = RunLogProb(layers, theta, loss, data.test)]
  /\ wlog' = Append(wlog, [arr |-> "test", idx |-> i, upd |-> nupdates])
  /\ i' = i + 1
  /\ pc' = IF i + 1 < NEPOCH THEN "update" ELSE "read"
  /\ UNCHANGED << K, attrs, layers, theta, loss, opt, data, train_loss, pred,
                  nupdates, ninit, calls, run >>

\* pred_weights, pred_means, pred_std = sess.run([model.pi, model.mus,
\* model.sigmas], feed_dict={X: X_test})
ReadPredictions ==
  /\ pc = "read"
  /\ pred' = RunHeads(layers, theta, attrs, data.test.X)
  /\ pc' = "done"
  /\ UNCHANGED << K, attrs, layers, theta, loss, opt, data, i, train_loss,
                  test_loss, nupdates, ninit, wlog, calls, run >>

Next ==
  \/ BuildDataset
  \/ Initialize
  \/ InitVars
  \/ AllocLoss
  \/ Update
  \/ Evaluate
  \/ ReadPredictions

Spec == Init /\ [][Next]_vars

\* ------------------------------------------------------------- operations
\* The operations of the model and of the inference in any order, on a model
\* constructed with any K in 1..MaxK.

InitAPI ==
  /\ pc = "api"
  /\ K \in 1..MaxK
  /\ attrs = NoTensor
  /\ layers = <<>>
  /\ theta = <<>>
  /\ loss = NoTensor
  /\ opt = NoStep
  /\ data = [train |-> NoBatch, test |-> NoBatch]
  /\ i = 0
  /\ train_loss = <<>>
  /\ test_loss = <<>>
  /\ pred = NoPred
  /\ nupdates = 0
  /\ ninit = 0
  /\ wlog = <<>>
  /\ calls = <<>>
  /\ run = NoRun

\* model.neural_network(X)
ApiNeuralNetwork ==
  /\ pc = "api"
  /\ Len(theta) < MaxNets
  /\ \E s \in InitSettings : neural_network(s)
  /\ run' = NoRun
  /\ UNCHANGED << pc, K, loss, opt, data, i, train_loss, test_loss, pred,
                  nupdates, ninit, wlog, calls >>

\* model.log_prob(xs, zs) on the placeholders; the tensor it returns is kept.
ApiLogProb ==
  /\ pc = "api"
  /\ Len(theta) < MaxNets
  /\ \E s \in InitSettings : neural_network(s)
  /\ calls' = Append(calls, attrs')
  /\ run' = NoRun
  /\ UNCHANGED << pc, K, loss, opt, data, i, train_loss, test_loss, pred,
                  nupdates, ninit, wlog >>

\* inference.initialize()
ApiInitialize ==
  /\ pc = "api"
  /\ loss = NoTensor
  /\ Len(theta) < MaxNets
  /\ \E s \in InitSettings : neural_network(s)
  /\ loss' = attrs'
  /\ \E f \in StepFunctions : opt' = f
  /\ run' = NoRun
  /\ UNCHANGED << pc, K, data, i, train_loss, test_loss, pred, nupdates, ninit,
                  wlog, calls >>

\* inference.update(feed_dict)
ApiUpdate ==
  /\ pc = "api"
  /\ loss # NoTensor
  /\ nupdates < MaxUpdates
  /\ theta' = Stepped(theta)
  /\ nupdates' = nupdates + 1
  /\ run' = NoRun
  /\ UNCHANGED << pc, K, attrs, layers, loss, opt, data, i, train_loss,
                  test_loss, pred, ninit, wlog, calls >>

\* sess.run(inference.loss, feed_dict)
ApiEvaluate ==
  /\ pc = "api"
  /\ loss # NoTensor
  /\ \E feed \in Feeds :
       run' = [feed |-> feed, val |-> RunLogProb(layers, theta, loss, feed)]
  /\ UNCHANGED << pc, K, attrs, layers, theta, loss, opt, data, i, train_loss,
                  test_loss, pred, nupdates, ninit, wlog, calls >>

NextAPI ==
  \/ ApiNeuralNetwork
  \/ ApiLogProb
  \/ ApiInitialize
  \/ ApiUpdate
  \/ ApiEvaluate

SpecAPI == InitAPI /\ [][NextAPI]_vars

\* ---------------------------------------------------------------- claims

\* The parameter tensors of the graph, with their shapes, in order of creation.
ParamTensors(ls) == [l \in 1..Len(ls) |-> ParamShapes(ls[l])]

\* The tensors whose values the operations can ask for: the model's attributes
\* and the loss's.
BuiltTensors == { t \in {attrs, loss} : t # NoTensor }

\* C1: the training loop makes exactly NEPOCH iterations, each with exactly
\* one optimizer update, and then the script ends: the number of updates
\* never exceeds NEPOCH, it is i at the head of an iteration and i + 1 after
\* the iteration's update, and it is NEPOCH when the script is done, where no
\* step is left to take.
C1_ExactlyNEpochUpdates ==
  /\ nupdates <= NEPOCH
  /\ pc = "update" => nupdates = i /\ i < NEPOCH
  /\ pc = "evaluate" => nupdates = i + 1 /\ i < NEPOCH
  /\ pc \in {"read", "done"} => nupdates = NEPOCH /\ i = NEPOCH
  /\ pc = "done" => ~ENABLED Next

C1_Witness == pc = "done" /\ nupdates = NEPOCH /\ Len(wlog) = 2 * NEPOCH

\* C2: the evaluation of the loss on the held-out batch and the final read of
\* model.pi, model.mus and model.sigmas leave the parameters as they are, and
\* once the variables are initialized only inference.update changes them.
C2_EvaluationLeavesParameters ==
  [][/\ pc \in {"evaluate", "read"} => theta' = theta /\ layers' = layers
     /\ (theta' # theta \/ layers' # layers)
          => pc \in {"initialize", "initvars", "update"}]_vars

C2_Witness ==
  /\ pc = "done"
  /\ pred # NoPred
  /\ Len(wlog) = 2 * NEPOCH
  /\ theta[NetOf(loss.pi)] \in TrainedSettings

SigmaPositive(h) ==
  \A r \in 1..Len(h.sigmas) : \A k \in 1..Len(h.sigmas[r]) :
    h.sigmas[r][k].c \in {"fin", "pinf"} /\ Sign(h.sigmas[r][k]) = 1

WeightsSumToOne(h) ==
  \A r \in 1..Len(h.pi) :
    /\ \A k \in 1..Len(h.pi[r]) : IsFin(h.pi[r][k]) /\ h.pi[r][k].v >= 0
    /\ LET sum == reduce_sum(h.pi[r])
       IN  IsFin(sum) /\ sum.v <= Scale + K /\ sum.v >= Scale - K

ShapeNxK(h, n) ==
  \A t \in {h.pi, h.mus, h.sigmas} :
    Len(t) = n /\ \A r \in 1..n : Len(t[r]) = K

\* C3: for every K, every batch of N rows and every parameter value that
\* optimizer updates reach, neural_network yields pi, mus and sigmas of shape
\* N x K, the weights of every row non-negative and summing to 1 (to within
\* the rounding of K weights), and every sigma > 0.
C3_MixtureParametersValid ==
  \A t \in BuiltTensors : \A feed \in Feeds :
    LET h == RunHeads(layers, theta, t, feed.X)
    IN  ShapeNxK(h, Len(feed.X)) /\ WeightsSumToOne(h) /\ SigmaPositive(h)

\* The density of the normal distribution with mean mu and standard deviation
\* sigma at y.
NormalDensity(y, mu, sigma) == tf_exp(logpdf1(y, mu, sigma))

\* The sum of f[1], ..., f[n].
RECURSIVE SumTo(_, _)
SumTo(f, n) == IF n = 0 THEN Fin(0) ELSE EAdd(SumTo(f, n - 1), f[n])

\* sum over the rows r of log( sum over k of pi[r][k] * density(y[r]; mu[r][k],
\* sigma[r][k]) )
MixtureLogLikelihood(y, h) ==
  SumTo([r \in 1..Len(y) |->
           tf_log(SumTo([k \in 1..K |->
                           EMul(h.pi[r][k],
                                NormalDensity(y[r][1], h.mus[r][k], h.sigmas[r][k]))],
                        K))],
        Len(y))

\* C4: the value of log_prob's tensor is one scalar, the sum over the rows of
\* the logarithm of the row's mixture density, the weighted sum of its K
\* component densities.
C4_LogProbIsMixtureLogLikelihood ==
  run # NoRun =>
    /\ run.val.c \in {"fin", "pinf", "ninf", "nan"}
    /\ run.val = MixtureLogLikelihood(Feed(run.feed.y),
                                      RunHeads(layers, theta, loss, run.feed.X))

C4_Witness ==
  /\ run # NoRun
  /\ K >= 2
  /\ nupdates >= 1
  /\ Len(run.feed.X) >= 2
  /\ IsFin(run.val)

\* C5: two calls of log_prob on the same model with the same inputs return
\* the same: the tensors they return have the same value whatever batch is
\* fed, however many calls were made before.
C5_LogProbDeterministic ==
  \A a \in 1..Len(calls) : \A b \in 1..Len(calls) : \A feed \in Feeds :
    RunLogProb(layers, theta, calls[a], feed)
      = RunLogProb(layers, theta, calls[b], feed)

\* The permutations of 1..n.
Perms(n) == { p \in [1..n -> 1..n] : \A a \in 1..n : \E b \in 1..n : p[b] = a }

\* The tensor t with the components of every row permuted by p.
Permuted(t, p) == Tup([r \in 1..Len(t) |-> Tup([k \in 1..Len(t[r]) |-> t[r][p[k]]])])

C7_ParametersFixedAtConstruction ==
  [][ParamTensors(layers') = ParamTensors(layers)]_vars

\* C8: model.K never changes, and every head created has K units.
C8_KFixed ==
  [][/\ K' = K
     /\ \A l \in 1..Len(layers') :
          layers'[l].act \in {"linear", "exp", "softmax"} => layers'[l].units = K']_vars

C8_Witness ==
  /\ Len(layers) = 5 * MaxNets
  /\ loss # NoTensor
  /\ nupdates >= 1
  /\ run # NoRun
  /\ calls # <<>>
  /\ \A l \in 1..Len(layers) :
       layers[l].act \in {"linear", "exp", "softmax"} => layers[l].units = K

\* C9: model.pi, model.mus and model.sigmas do not exist before the first call
\* of neural_network; after any call they are the outputs of the most recent
\* call, and they are the tensors the loss the optimizer trains is built on.
C9_HeldState ==
  /\ attrs = NoTensor <=> layers = <<>>
  /\ attrs # NoTensor => attrs = NewAttrs(Len(layers) - 5)
  /\ loss # NoTensor => attrs = loss

\* C10: in every iteration i the update comes before the evaluation:
\* train_loss[i] is written once, by the (i+1)-th call of update, test_loss[i]
\* is written once, with the parameters i + 1 updates leave, and the variables
\* are initialized once, before the first update.
C10_UpdateBeforeEvaluation ==
  /\ \A n \in 1..Len(wlog) :
       /\ wlog[n].idx = (n - 1) \div 2
       /\ wlog[n].upd = wlog[n].idx + 1
       /\ wlog[n].arr = IF n % 2 = 1 THEN "train" ELSE "test"
  /\ Len(wlog) = nupdates + i
  /\ ninit <= 1
  /\ nupdates >= 1 => ninit = 1
  /\ pc = "done" => Len(wlog) = 2 * NEPOCH

C10_Witness ==
  /\ pc = "done"
  /\ Len(wlog) = 2 * NEPOCH
  /\ wlog[2 * NEPOCH] = [arr |-> "test", idx |-> NEPOCH - 1, upd |-> NEPOCH]
  /\ ninit = 1

====
